---- MODULE Spec2Model ----
(***************************************************************************)
(* Heading-outline extraction of app/main.py.                              *)
(*                                                                         *)
(* A text is a tuple of one-character strings, so that strip, lower,       *)
(* split, the substring tests and the regular expressions are computed     *)
(* character by character.  Font sizes and y0 are integers (points).       *)
(* Heading scores are kept in half points: Half(3) stands for 1.5.         *)
(***************************************************************************)
EXTENDS Integers, Sequences, FiniteSets, TLC

\* ---------------------------------------------------------------- bounds
MaxFrags == 3
MaxFiles == 2

\* ------------------------------------------------------------ characters
UpperSeq == <<"A","B","C","D","E","F","G","H","I","J","K","L","M","N","O","P","Q","R","S","T","U","V","W","X","Y","Z">>
LowerSeq == <<"a","b","c","d","e","f","g","h","i","j","k","l","m","n","o","p","q","r","s","t","u","v","w","x","y","z">>
Upper == {"A","B","C","D","E","F","G","H","I","J","K","L","M","N","O","P","Q","R","S","T","U","V","W","X","Y","Z"}
Lower == {"a","b","c","d","e","f","g","h","i","j","k","l","m","n","o","p","q","r","s","t","u","v","w","x","y","z"}
Letter == Upper \cup Lower
Digit == {"0","1","2","3","4","5","6","7","8","9"}
Space == {" "}
WordChar == Letter \cup Digit \cup {"_"}
EnDash == "u2013"
EmDash == "u2014"
\* c.lower() for one character
lower_char(c) ==
  IF c \in Upper THEN LowerSeq[CHOOSE i \in 1..26 : UpperSeq[i] = c] ELSE c

\* ------------------------------------------------------- str operations
lower(s) == [i \in 1..Len(s) |-> lower_char(s[i])]

strip(s) ==
  IF \A i \in 1..Len(s) : s[i] \in Space THEN <<>>
  ELSE SubSeq(s,
         CHOOSE i \in 1..Len(s) : s[i] \notin Space /\ \A j \in 1..(i - 1) : s[j] \in Space,
         CHOOSE i \in 1..Len(s) : s[i] \notin Space /\ \A j \in (i + 1)..Len(s) : s[j] \in Space)

\* len(s.split())
split_len(s) ==
  Cardinality({i \in 1..Len(s) : s[i] \notin Space /\ (i = 1 \/ s[i-1] \in Space)})

\* s.replace(c, d) for single characters and s.replace(c, '')
replace(s, c, d) == [i \in 1..Len(s) |-> IF s[i] = c THEN d ELSE s[i]]
remove(s, c) == SelectSeq(s, LAMBDA x : x # c)

\* sub in s
Contains(s, sub) ==
  \E i \in 1..(Len(s) - Len(sub) + 1) : SubSeq(s, i, i + Len(sub) - 1) = sub

istitle(s) ==
  /\ \E i \in 1..Len(s) : s[i] \in Letter
  /\ \A i \in 1..Len(s) :
       /\ s[i] \in Upper => (i = 1 \/ s[i-1] \notin Letter)
       /\ s[i] \in Lower => (i > 1 /\ s[i-1] \in Letter)

isupper(s) ==
  /\ \E i \in 1..Len(s) : s[i] \in Upper
  /\ \A i \in 1..Len(s) : s[i] \notin Lower

join(a, b) == IF a = <<>> THEN b ELSE a \o <<" ">> \o b

\* ------------------------------------------------- regular expressions
\* end of the longest run of characters of class C that starts at i
SkipClass(s, i, C) ==
  CHOOSE j \in i..(Len(s) + 1) :
    /\ \A k \in i..(j - 1) : s[k] \in C
    /\ (j = Len(s) + 1 \/ s[j] \notin C)

At(s, i, C) == i <= Len(s) /\ s[i] \in C
AtEnd(s, i) == i = Len(s) + 1
HasPrefix(s, p) == Len(s) >= Len(p) /\ SubSeq(s, 1, Len(p)) = p
\* prefix match under re.IGNORECASE; p is given in lower case
HasPrefixI(s, p) == Len(s) >= Len(p) /\ lower(SubSeq(s, 1, Len(p))) = p
\* keyword followed by \b
HasWordI(s, p) == HasPrefixI(s, p) /\ ~At(s, Len(p) + 1, WordChar)

\* ^[A-Z][a-z]*\s*:?\s*$
MatchSingleWord(s) ==
  /\ At(s, 1, Upper)
  /\ LET a == SkipClass(s, 2, Lower)
         b == SkipClass(s, a, Space)
         c == IF At(s, b, {":"}) THEN b + 1 ELSE b
     IN AtEnd(s, SkipClass(s, c, Space))

\* ^\d+\.\s*$
MatchBareNumber(s) ==
  LET a == SkipClass(s, 1, Digit)
  IN a > 1 /\ At(s, a, {"."}) /\ AtEnd(s, SkipClass(s, a + 1, Space))

\* ^S\.No\.?\s*$
MatchSerialNo(s) ==
  /\ HasPrefix(s, <<"S",".","N","o">>)
  /\ AtEnd(s, SkipClass(s, IF At(s, 5, {"."}) THEN 6 ELSE 5, Space))

\* ^Rs\.\s*$
MatchCurrency(s) == HasPrefix(s, <<"R","s",".">>) /\ AtEnd(s, SkipClass(s, 4, Space))

form_field_patterns(s) ==
  MatchSingleWord(s) \/ MatchBareNumber(s) \/ MatchSerialNo(s) \/ MatchCurrency(s)

field_labels ==
  { <<"n","a","m","e">>, <<"a","g","e">>, <<"d","a","t","e">>, <<"d","e","s","i","g","n","a","t","i","o","n">>, <<"s","e","r","v","i","c","e">>, <<"s","i","n","g","l","e">>, <<"a","m","o","u","n","t">> }

\* ^\d+\.\s+[A-Z][a-z]+  (IGNORECASE: both classes match any letter)
MatchNumberedSection(s) ==
  LET a == SkipClass(s, 1, Digit)
      b == SkipClass(s, a + 1, Space)
  IN a > 1 /\ At(s, a, {"."}) /\ b > a + 1 /\ At(s, b, Letter) /\ At(s, b + 1, Letter)

\* ^\d+\.\d+\s+[A-Z]
MatchSubsection(s) ==
  LET a == SkipClass(s, 1, Digit)
      c == SkipClass(s, a + 1, Digit)
      d == SkipClass(s, c, Space)
  IN a > 1 /\ At(s, a, {"."}) /\ c > a + 1 /\ d > c /\ At(s, d, Letter)

\* ^kw\s+C  for  ^Chapter\s+\d+, ^Section\s+\d+, ^Appendix\s+[A-Z]
MatchKeywordThen(s, kw, C) ==
  LET b == SkipClass(s, Len(kw) + 1, Space)
  IN HasPrefixI(s, kw) /\ b > Len(kw) + 1 /\ At(s, b, C)

section_names ==
  { <<"t","a","b","l","e"," ","o","f"," ","c","o","n","t","e","n","t","s">>, <<"r","e","v","i","s","i","o","n"," ","h","i","s","t","o","r","y">>, <<"a","c","k","n","o","w","l","e","d","g","e","m","e","n","t","s">>,
    <<"r","e","f","e","r","e","n","c","e","s">>, <<"a","b","s","t","r","a","c","t">>, <<"i","n","t","r","o","d","u","c","t","i","o","n">>, <<"c","o","n","c","l","u","s","i","o","n">>,
    <<"o","v","e","r","v","i","e","w">>, <<"s","u","m","m","a","r","y">>, <<"b","a","c","k","g","r","o","u","n","d">> }

strong_heading_patterns(s) ==
  \/ MatchNumberedSection(s)
  \/ MatchSubsection(s)
  \/ MatchKeywordThen(s, <<"c","h","a","p","t","e","r">>, Digit)
  \/ MatchKeywordThen(s, <<"s","e","c","t","i","o","n">>, Digit)
  \/ MatchKeywordThen(s, <<"a","p","p","e","n","d","i","x">>, Letter)
  \/ \E kw \in section_names : HasPrefixI(s, kw)

\* (\.\d+)* starting at i
RECURSIVE SkipDotGroups(_, _)
SkipDotGroups(s, i) ==
  IF At(s, i, {"."}) /\ At(s, i + 1, Digit)
  THEN SkipDotGroups(s, SkipClass(s, i + 1, Digit))
  ELSE i

\* ^\d+(\.\d+)*\s+
MatchNumberPrefix(s) ==
  LET a == SkipClass(s, 1, Digit)
  IN a > 1 /\ At(s, SkipDotGroups(s, a), Space)

\* ^\d+\.\s+[A-Z]
MatchNumberedCapital(s) ==
  LET a == SkipClass(s, 1, Digit)
      b == SkipClass(s, a + 1, Space)
  IN a > 1 /\ At(s, a, {"."}) /\ b > a + 1 /\ At(s, b, Letter)

structure_words == { <<"a","p","p","e","n","d","i","x">>, <<"p","h","a","s","e">>, <<"s","e","c","t","i","o","n">>, <<"c","h","a","p","t","e","r">> }
semantic_words ==
  { <<"s","u","m","m","a","r","y">>, <<"b","a","c","k","g","r","o","u","n","d">>, <<"t","i","m","e","l","i","n","e">>, <<"m","i","l","e","s","t","o","n","e","s">>, <<"c","o","n","c","l","u","s","i","o","n">>,
    <<"e","v","a","l","u","a","t","i","o","n">>, <<"a","p","p","r","o","a","c","h">>, <<"o","v","e","r","v","i","e","w">>, <<"r","e","f","e","r","e","n","c","e","s">>, <<"t","r","a","i","n","i","n","g">> }

semantic_patterns(s) ==
  \/ MatchNumberPrefix(s)
  \/ \E kw \in structure_words : HasWordI(s, kw)
  \/ \E kw \in semantic_words : HasWordI(s, kw)
  \/ MatchNumberedCapital(s)

\* ------------------------------------------------------------ fragments
\* font_size of a line without character metadata (main.py line 23); every
\* comparison of a font size below is guarded by a test for None
None == 0 - 1

\* tuple comparison of two-element sort keys
KeyLess(k1, k2) == k1[1] < k2[1] \/ (k1[1] = k2[1] /\ k1[2] < k2[2])

\* mutant of Before: an element also goes in front of its equals (unstable)
Before_or_equal(x, h, reverse) ==
  IF reverse THEN ~KeyLess(x.key, h.key) ELSE ~KeyLess(h.key, x.key)

\* x sorts strictly before h
Before(x, h, reverse) ==
  IF reverse THEN KeyLess(h.key, x.key) ELSE KeyLess(x.key, h.key)

\* stable insertion: x goes behind every element it is not Before
RECURSIVE Insert(_, _, _)
Insert(sorted, x, reverse) ==
  IF sorted = <<>> THEN <<x>>
  ELSE IF Before(x, Head(sorted), reverse) THEN <<x>> \o sorted
  ELSE <<Head(sorted)>> \o Insert(Tail(sorted), x, reverse)

RECURSIVE SortKeyed(_, _)
SortKeyed(keyed, reverse) ==
  IF keyed = <<>> THEN <<>>
  ELSE Insert(SortKeyed(SubSeq(keyed, 1, Len(keyed) - 1), reverse),
              keyed[Len(keyed)], reverse)

\* list.sort(key=..., reverse=...): stable; keys is the tuple of the keys of seq
sort(seq, keys, reverse) ==
  LET sorted == SortKeyed([i \in 1..Len(seq) |-> [key |-> keys[i], val |-> seq[i]]],
                          reverse)
  IN [i \in 1..Len(seq) |-> sorted[i].val]

\* mutant of reading_order_key: y0 not negated (bottom of the page first)
reading_order_key_ascending(block) == <<block.page, block.y0>>

\* key=lambda x: (x['page'], -x['y0'])
reading_order_key(block) == <<block.page, 0 - block.y0>>

reading_order_sort(blocks) ==
  sort(blocks, [i \in 1..Len(blocks) |-> reading_order_key(blocks[i])], FALSE)

\* ---------------------------------------------------- get_document_title
first_page_blocks(text_blocks) == SelectSeq(text_blocks, LAMBDA b : b.page = 0)

\* line 60 compares font_size with 8 for every first-page block
get_document_title_raises(text_blocks) ==
  \E i \in 1..Len(text_blocks) :
    text_blocks[i].page = 0 /\ text_blocks[i].font_size = None

is_title_candidate(block) ==
  /\ block.font_size >= 8
  /\ Len(strip(block.text)) >= 5
  /\ split_len(strip(block.text)) >= 2

title_candidates(text_blocks) ==
  SelectSeq(first_page_blocks(text_blocks), is_title_candidate)

font_size_or_0(block) == IF block.font_size = None THEN 0 ELSE block.font_size

\* key=lambda x: (x['font_size'] or 0, -x['y0'])
title_key(block) == <<font_size_or_0(block), 0 - block.y0>>

sort_title_candidates(cands) ==
  sort(cands, [i \in 1..Len(cands) |-> title_key(cands[i])], TRUE)

title_fallback(text_blocks) ==
  LET long == SelectSeq(first_page_blocks(text_blocks),
                        LAMBDA b : Len(strip(b.text)) >= 5)
  IN IF long = <<>> THEN <<>> ELSE strip(long[1].text)

get_document_title(text_blocks) ==
  IF title_candidates(text_blocks) = <<>>
  THEN title_fallback(text_blocks)
  ELSE strip(sort_title_candidates(title_candidates(text_blocks))[1].text)

\* ------------------------------------------------------ is_form_document
strong_form_indicators ==
  { <<"a","p","p","l","i","c","a","t","i","o","n"," ","f","o","r","m"," ","f","o","r"," ","g","r","a","n","t">>, <<"l","t","c"," ","a","d","v","a","n","c","e">>, <<"g","o","v","e","r","n","m","e","n","t"," ","s","e","r","v","a","n","t">>,
    <<"s","i","g","n","a","t","u","r","e"," ","o","f"," ","g","o","v","e","r","n","m","e","n","t"," ","s","e","r","v","a","n","t">>, <<"p","a","r","t","i","c","u","l","a","r","s"," ","f","u","r","n","i","s","h","e","d"," ","a","b","o","v","e"," ","a","r","e"," ","t","r","u","e">> }

generic_form_indicators ==
  { <<"a","p","p","l","i","c","a","t","i","o","n"," ","f","o","r","m">>, <<"n","a","m","e"," ","o","f"," ","t","h","e"," ","a","p","p","l","i","c","a","n","t">>, <<"d","a","t","e"," ","o","f"," ","b","i","r","t","h">>,
    <<"f","a","t","h","e","r","'","s"," ","n","a","m","e">>, <<"m","o","t","h","e","r","'","s"," ","n","a","m","e">>, <<"a","d","d","r","e","s","s">> }

RECURSIVE join_texts(_)
join_texts(blocks) ==
  IF blocks = <<>> THEN <<>>
  ELSE IF Len(blocks) = 1 THEN blocks[1].text
  ELSE blocks[1].text \o <<" ">> \o join_texts(Tail(blocks))

first_pages_text(text_blocks) ==
  lower(join_texts(SelectSeq(text_blocks, LAMBDA b : b.page <= 1)))

strong_form_score(text_blocks) ==
  Cardinality({ind \in strong_form_indicators :
                 Contains(first_pages_text(text_blocks), ind)})

generic_form_score(text_blocks) ==
  Cardinality({ind \in generic_form_indicators :
                 Contains(first_pages_text(text_blocks), ind)})

\* mutant of is_form_document: three strong indicators needed
is_form_document_three(text_blocks) ==
  IF text_blocks = <<>> THEN TRUE
  ELSE IF strong_form_score(text_blocks) >= 3 THEN TRUE
  ELSE generic_form_score(text_blocks) >= 4

\* mutant of is_form_document: no test for the empty list
is_form_document_nonempty(text_blocks) ==
  IF strong_form_score(text_blocks) >= 2 THEN TRUE
  ELSE generic_form_score(text_blocks) >= 4

is_form_document(text_blocks) ==
  IF text_blocks = <<>> THEN TRUE
  ELSE IF strong_form_score(text_blocks) >= 2 THEN TRUE
  ELSE generic_form_score(text_blocks) >= 4

\* ------------------------------------------------------- is_real_heading
\* the element of a one-element set: in {f(x) : x \in {e}} the text e is
\* computed once, however often f reads x
Only(S) == CHOOSE x \in S : TRUE

\* mutant of is_real_heading: the strong heading patterns are tried first
is_real_heading_strong_first(text0, block) ==
  Only({ IF Len(text) < 3 THEN "False"
         ELSE IF strong_heading_patterns(text) THEN "True"
         ELSE IF form_field_patterns(text) THEN "False"
         ELSE IF remove(remove(lower(text), ":"), ".") \in field_labels THEN "False"
         ELSE IF split_len(text) < 2 THEN "False"
         ELSE IF block.font_size = None THEN "TypeError"
         ELSE IF (block.font_size > 12 \/ block.bold) /\ (istitle(text) \/ isupper(text))
              THEN "True"
         ELSE "False" : text \in {strip(text0)} })

\* "True", "False", or "TypeError" when line 161 compares None with 12
is_real_heading(text0, block) ==
  Only({ IF Len(text) < 3 THEN "False"
         ELSE IF form_field_patterns(text) THEN "False"
         ELSE IF remove(remove(lower(text), ":"), ".") \in field_labels THEN "False"
         ELSE IF strong_heading_patterns(text) THEN "True"
         ELSE IF split_len(text) < 2 THEN "False"
         ELSE IF block.font_size = None THEN "TypeError"
         ELSE IF (block.font_size > 12 \/ block.bold) /\ (istitle(text) \/ isupper(text))
              THEN "True"
         ELSE "False" : text \in {strip(text0)} })

\* --------------------------------------------- detect_headings_universal
\* 1.5 is Half(3): scores are counted in half points
Half(n) == n
Points(n) == 2 * n

clean(text) == replace(replace(strip(text), EnDash, "-"), EmDash, "-")

\* mutant of size_weight: strict comparisons
size_weight_strict(font_size) ==
  IF font_size > 16 THEN Points(3)
  ELSE IF font_size > 13 THEN Points(2)
  ELSE IF font_size > 11 THEN Points(1)
  ELSE 0

size_weight(font_size) ==
  IF font_size >= 16 THEN Points(3)
  ELSE IF font_size >= 13 THEN Points(2)
  ELSE IF font_size >= 11 THEN Points(1)
  ELSE 0

heading_score(clean_text, block) ==
  size_weight(block.font_size)
  + (IF block.bold THEN Half(3) ELSE 0)
  + (IF semantic_patterns(clean_text) THEN Half(3) ELSE 0)

heading_level(score) ==
  IF score >= Points(5) THEN "H1"
  ELSE IF score >= Points(4) THEN "H2"
  ELSE "H3"

\* mutant of scan_block: the emitted (text, page) is not remembered
scan_block_forgets_seen(block, outline, seen, threshold) ==
  LET skip == [raised |-> FALSE, outline |-> outline, seen |-> seen]
      fail == [raised |-> TRUE, outline |-> outline, seen |-> seen]
  IN Only({
       IF t.text = <<>> \/ Len(t.text) < 3 \/ <<t.text, block.page>> \in seen THEN skip
       ELSE IF is_real_heading(t.clean_text, block) = "TypeError" THEN fail
       ELSE IF is_real_heading(t.clean_text, block) = "False" THEN skip
       ELSE IF block.font_size = None THEN fail
       ELSE IF heading_score(t.clean_text, block) >= threshold
            THEN [raised |-> FALSE,
                  outline |-> Append(outline,
                                [level |-> heading_level(heading_score(t.clean_text, block)),
                                 text |-> t.text, page |-> block.page + 1]),
                  seen |-> seen]
       ELSE skip
       : t \in {[text |-> strip(block.text), clean_text |-> clean(block.text)]} })

\* one iteration of the loop of lines 175-228 on block, from (outline, seen):
\* the new outline and seen set, or the exception that leaves the loop;
\* t holds the locals text and clean_text
scan_block(block, outline, seen, threshold) ==
  LET skip == [raised |-> FALSE, outline |-> outline, seen |-> seen]
      fail == [raised |-> TRUE, outline |-> outline, seen |-> seen]
  IN Only({
       IF t.text = <<>> \/ Len(t.text) < 3 \/ <<t.text, block.page>> \in seen THEN skip
       ELSE IF is_real_heading(t.clean_text, block) = "TypeError" THEN fail
       ELSE IF is_real_heading(t.clean_text, block) = "False" THEN skip
       ELSE IF block.font_size = None THEN fail
       ELSE IF heading_score(t.clean_text, block) >= threshold
            THEN [raised |-> FALSE,
                  outline |-> Append(outline,
                                [level |-> heading_level(heading_score(t.clean_text, block)),
                                 text |-> t.text, page |-> block.page + 1]),
                  seen |-> seen \cup {<<t.text, block.page>>}]
       ELSE skip
       : t \in {[text |-> strip(block.text), clean_text |-> clean(block.text)]} })

\* ------------------------------------------------------------ the inputs
\* text lines as the layout analysis hands them over: text before strip,
\* page, y0, and the size/boldness of the first character (None/FALSE without)
Line(text, page, y0, font_size, bold) ==
  [text |-> text, page |-> page, y0 |-> y0, font_size |-> font_size, bold |-> bold]

Pool ==
  { Line(<<"1","."," ","I","n","t","r","o","d","u","c","t","i","o","n">>, 0, 700, 14, TRUE),
    Line(<<"N","a","m","e",":">>, 0, 600, 10, FALSE),
    Line(<<"A","n","n","u","a","l"," ","R","e","p","o","r","t"," ","2","0","2","4">>, 0, 500, 24, FALSE),
    Line(<<"D","r","a","f","t"," ","C","o","p","y">>, 0, 700, 24, FALSE),
    Line(<<"A","n","n","u","a","l"," ","R","e","p","o","r","t"," ","2","0","2","4">>, 0, 500, None, FALSE),
    Line(<<" "," ">>, 0, 100, None, FALSE),
    Line(<<"I","n","t","r","o","d","u","c","t","i","o","n">>, 1, 700, 16, TRUE),
    Line(<<"2",".","1"," ","S","c","o","p","e">>, 1, 600, 11, TRUE),
    Line(<<"T","a","b","l","e"," ","o","f"," ","C","o","n","t","e","n","t","s">>, 1, 600, 11, FALSE),
    Line(<<"P","r","o","j","e","c","t"," ","O","v","e","r","v","i","e","w">>, 1, 400, None, FALSE),
    Line(<<"S","i","g","n","a","t","u","r","e"," ","o","f"," ","G","o","v","e","r","n","m","e","n","t"," ","S","e","r","v","a","n","t">>, 1, 100, 10, FALSE),
    Line(<<"T","a","b","l","e"," ","o","f"," ","C","o","n","t","e","n","t","s">>, 2, 700, None, FALSE) }

SeqsUpTo(S, n) == UNION {[1..m -> S] : m \in 0..n}

\* a PDF file: unreadable (extract_pages raises) or a list of text lines
Unreadable == [ok |-> FALSE, lines |-> <<>>]
Pdfs == {Unreadable} \cup {[ok |-> TRUE, lines |-> ls] : ls \in SeqsUpTo(Pool, MaxFrags)}

\* a few files for the batches
BatchPdfs ==
  { Unreadable,
    [ok |-> TRUE, lines |-> <<>>],
    [ok |-> TRUE, lines |-> <<Line(<<"A","n","n","u","a","l"," ","R","e","p","o","r","t"," ","2","0","2","4">>, 0, 500, None, FALSE)>>],
    [ok |-> TRUE, lines |-> <<Line(<<"T","a","b","l","e"," ","o","f"," ","C","o","n","t","e","n","t","s">>, 2, 700, None, FALSE),
                              Line(<<"1","."," ","I","n","t","r","o","d","u","c","t","i","o","n">>, 0, 700, 14, TRUE)>>],
    [ok |-> TRUE, lines |-> <<Line(<<"D","r","a","f","t"," ","C","o","p","y">>, 0, 700, 24, FALSE)>>] }

EmptyResult == [title |-> <<>>, outline |-> <<>>]

\* -------------------------------------------------------------- the state
VARIABLES
  input_dir_exists,  \* os.path.exists(input_dir)
  files,             \* pdf_files: the PDF files of the input directory
  idx,               \* position of the for loop of process_all_pdfs
  pc,                \* control point
  text_blocks,       \* process_pdf_for_outline: the sorted fragments
  title,
  outline,           \* detect_headings_universal: outline, seen, loop position
  seen,
  k,
  heading_blocks,    \* history: position in text_blocks of each outline entry's block
  result,            \* what process_pdf_for_outline returned
  outputs            \* the JSON documents written, in order

vars == <<input_dir_exists, files, idx, pc, text_blocks, title, outline, seen,
          k, heading_blocks, result, outputs>>

locals == <<text_blocks, title, outline, seen, k, heading_blocks>>

InitLocals ==
  /\ text_blocks = <<>>
  /\ title = <<>>
  /\ outline = <<>>
  /\ seen = {}
  /\ k = 0
  /\ heading_blocks = <<>>

InitRest ==
  /\ idx = 0
  /\ pc = "start"
  /\ InitLocals
  /\ result = EmptyResult
  /\ outputs = <<>>

\* one file of any content, an empty directory, or no directory
Init ==
  /\ \/ input_dir_exists = TRUE /\ files \in {<<p>> : p \in Pdfs} \cup {<<>>}
     \/ input_dir_exists = FALSE /\ files = <<>>
  /\ InitRest

\* several files
BatchInit ==
  /\ input_dir_exists = TRUE
  /\ files \in SeqsUpTo(BatchPdfs, MaxFiles)
  /\ InitRest

\* ------------------------------------------------------------ the actions
\* process_all_pdfs up to the for loop
Start ==
  /\ pc = "start"
  /\ pc' = IF input_dir_exists /\ files # <<>> THEN "extract" ELSE "done"
  /\ idx' = IF input_dir_exists /\ files # <<>> THEN 1 ELSE idx
  /\ UNCHANGED <<input_dir_exists, files, locals, result, outputs>>

\* the loop of extract_text_and_properties_from_pdf: strip, drop blank lines
text_lines(pdf) ==
  LET stripped == [i \in 1..Len(pdf.lines) |->
                     [pdf.lines[i] EXCEPT !.text = strip(pdf.lines[i].text)]]
  IN SelectSeq(stripped, LAMBDA b : b.text # <<>>)

extract_text_and_properties_from_pdf(pdf) == reading_order_sort(text_lines(pdf))

Extract ==
  /\ pc = "extract"
  /\ IF files[idx].ok
     THEN /\ text_blocks' = extract_text_and_properties_from_pdf(files[idx])
          /\ pc' = "title"
     ELSE /\ pc' = "except"
          /\ UNCHANGED text_blocks
  /\ UNCHANGED <<input_dir_exists, files, idx, title, outline, seen, k,
                 heading_blocks, result, outputs>>

GetTitle ==
  /\ pc = "title"
  /\ IF get_document_title_raises(text_blocks)
     THEN pc' = "except" /\ UNCHANGED title
     ELSE pc' = "form" /\ title' = get_document_title(text_blocks)
  /\ UNCHANGED <<input_dir_exists, files, idx, text_blocks, outline, seen, k,
                 heading_blocks, result, outputs>>

\* lines 239-242 up to the first iteration of detect_headings_universal
FormGate ==
  /\ pc = "form"
  /\ outline' = <<>>
  /\ seen' = {}
  /\ heading_blocks' = <<>>
  /\ IF is_form_document(text_blocks)
     THEN pc' = "return" /\ UNCHANGED k
     ELSE pc' = "scan" /\ k' = 1
  /\ UNCHANGED <<input_dir_exists, files, idx, text_blocks, title, result, outputs>>

Threshold == Points(3)

\* the for loop of detect_headings_universal: one iteration, or its end
ScanStep ==
  /\ pc = "scan"
  /\ IF k > Len(text_blocks)
     THEN pc' = "return" /\ UNCHANGED <<outline, seen, heading_blocks, k>>
     ELSE LET r == scan_block(text_blocks[k], outline, seen, Threshold)
          IN /\ outline' = r.outline
             /\ seen' = r.seen
             /\ heading_blocks' = IF Len(r.outline) > Len(outline)
                                  THEN Append(heading_blocks, k) ELSE heading_blocks
             /\ pc' = IF r.raised THEN "except" ELSE "scan"
             /\ k' = IF r.raised THEN k ELSE k + 1
  /\ UNCHANGED <<input_dir_exists, files, idx, text_blocks, title, result, outputs>>

Return ==
  /\ pc = "return"
  /\ result' = [title |-> strip(title), outline |-> outline]
  /\ pc' = "write"
  /\ UNCHANGED <<input_dir_exists, files, idx, locals, outputs>>

\* mutant of Except: the exception leaves process_pdf_for_outline and ends the batch
Except_propagates ==
  /\ pc = "except"
  /\ pc' = "done"
  /\ UNCHANGED <<input_dir_exists, files, idx, locals, result, outputs>>

\* except Exception
Except ==
  /\ pc = "except"
  /\ result' = EmptyResult
  /\ pc' = "write"
  /\ UNCHANGED <<input_dir_exists, files, idx, locals, outputs>>

\* json.dump of the result and the next iteration of process_all_pdfs
Write ==
  /\ pc = "write"
  /\ outputs' = Append(outputs, result)
  /\ idx' = idx + 1
  /\ pc' = IF idx < Len(files) THEN "extract" ELSE "done"
  /\ text_blocks' = <<>>
  /\ title' = <<>>
  /\ outline' = <<>>
  /\ seen' = {}
  /\ k' = 0
  /\ heading_blocks' = <<>>
  /\ UNCHANGED <<input_dir_exists, files, result>>

Next == Start \/ Extract \/ GetTitle \/ FormGate \/ ScanStep \/ Return \/ Except \/ Write

Spec == Init /\ [][Next]_vars
BatchSpec == BatchInit /\ [][Next]_vars
\* the loop is sequential code: it keeps running while a step is enabled
FairBatchSpec == BatchSpec /\ WF_vars(Next)

\* =================================================================== claims
InDocument == pc \in {"title", "form", "scan", "return", "except", "write"}
Entry(o, i) == <<o[i].text, o[i].page>>
NoDuplicates(o) == \A i, j \in 1..Len(o) : i # j => Entry(o, i) # Entry(o, j)

\* C1: an outline never holds two entries with the same (text, page), neither
\* while the scan is running nor in a returned or written result.
C1_NoDuplicateEntries ==
  /\ NoDuplicates(outline)
  /\ NoDuplicates(result.outline)
  /\ \A i \in 1..Len(outputs) : NoDuplicates(outputs[i].outline)

\* the scan has passed a second copy of a block that it emitted
C1_Witness ==
  /\ pc = "scan"
  /\ \E i \in 1..Len(heading_blocks) : \E j \in 1..(k - 1) :
       heading_blocks[i] < j /\ text_blocks[j] = text_blocks[heading_blocks[i]]

StrongIndicatorsPresent(blocks) ==
  {ind \in strong_form_indicators : Contains(first_pages_text(blocks), ind)}

WouldBeHeading(block) ==
  /\ block.font_size # None
  /\ is_real_heading(clean(block.text), block) = "True"
  /\ heading_score(clean(block.text), block) >= Threshold

\* C2: when the text of pages 0 and 1 holds at least 2 strong indicator
\* phrases, the result returned for the document has an empty outline.
C2_FormGate ==
  (pc = "write" /\ Cardinality(StrongIndicatorsPresent(text_blocks)) >= 2)
    => result.outline = <<>>

\* a form returned with its title although a block of it scores as a heading
C2_Witness ==
  /\ pc = "write"
  /\ Cardinality(StrongIndicatorsPresent(text_blocks)) >= 2
  /\ result.title # <<>>
  /\ \E i \in 1..Len(text_blocks) : WouldBeHeading(text_blocks[i])

QualifiesAsTitle(block) ==
  /\ block.page = 0
  /\ font_size_or_0(block) >= 8
  /\ Len(strip(block.text)) >= 5
  /\ split_len(strip(block.text)) >= 2

\* C3: when a first-page block qualifies as a title candidate, the title
\* returned is the text of a candidate of largest font size and, among those,
\* of largest y0.
C3_TitleLargestFontTopmost ==
  (pc = "form" /\ \E i \in 1..Len(text_blocks) : QualifiesAsTitle(text_blocks[i]))
    => \E i \in 1..Len(text_blocks) :
         /\ QualifiesAsTitle(text_blocks[i])
         /\ title = strip(text_blocks[i].text)
         /\ \A j \in 1..Len(text_blocks) :
              QualifiesAsTitle(text_blocks[j]) =>
                \/ text_blocks[j].font_size < text_blocks[i].font_size
                \/ /\ text_blocks[j].font_size = text_blocks[i].font_size
                   /\ text_blocks[j].y0 <= text_blocks[i].y0

\* C4: a document with a block whose font_size is None (bold FALSE) is
\* processed without reaching the except clause.
C4_NullFontSizeIsNoError ==
  (InDocument /\ \E i \in 1..Len(text_blocks) :
                   text_blocks[i].font_size = None /\ ~text_blocks[i].bold)
    => pc # "except"

\* C5: a failure in process_pdf_for_outline is turned into the empty result,
\* that result is written like any other, and the batch goes on until every
\* file has its output.
C5_FailuresContained ==
  /\ [][pc = "except" => (pc' = "write" /\ result' = EmptyResult)]_vars
  /\ [][pc = "write" => outputs' = Append(outputs, result)]_vars
  /\ <>(pc = "done" /\ Len(outputs) = Len(files))

\* a batch whose first file failed and whose second file has a title
C5_Witness ==
  /\ pc = "done"
  /\ Len(files) >= 2
  /\ ~files[1].ok
  /\ Len(outputs) = Len(files)
  /\ outputs[1] = EmptyResult
  /\ outputs[2].title # <<>>

\* C6: each outline entry comes from a block of text_blocks, and from one entry
\* to the next the page does not decrease and, on the same page, y0 does not
\* increase.
C6_ReadingOrder ==
  /\ Len(heading_blocks) = Len(outline)
  /\ \A j \in 1..Len(outline) :
       /\ outline[j].text = strip(text_blocks[heading_blocks[j]].text)
       /\ outline[j].page = text_blocks[heading_blocks[j]].page + 1
  /\ \A j \in 1..(Len(outline) - 1) :
       /\ outline[j].page <= outline[j+1].page
       /\ outline[j].page = outline[j+1].page =>
            text_blocks[heading_blocks[j+1]].y0 <= text_blocks[heading_blocks[j]].y0

\* two entries of one page at different heights, from lines extracted out of order
C6_Witness ==
  /\ pc = "return"
  /\ text_lines(files[idx]) # text_blocks
  /\ \E j \in 1..(Len(outline) - 1) :
       /\ outline[j].page = outline[j+1].page
       /\ text_blocks[heading_blocks[j+1]].y0 < text_blocks[heading_blocks[j]].y0

\* C7: a readable document without fragments raises nothing, gets the empty
\* title, is classified as a form (the scan is not entered) and is returned as
\* the empty result.
C7_EmptyDocument ==
  (InDocument /\ files[idx].ok /\ text_blocks = <<>>)
    => /\ pc \notin {"except", "scan"}
       /\ pc = "form" => (title = <<>> /\ is_form_document(text_blocks))
       /\ pc = "write" => result = EmptyResult

C7_Witness ==
  pc = "write" /\ files[idx].ok /\ text_blocks = <<>> /\ result = EmptyResult

\* the score of the claim, in half points, a None font size counting as 0
ClaimScore(block) ==
  (IF block.font_size = None THEN 0
   ELSE IF block.font_size >= 16 THEN 6
   ELSE IF block.font_size >= 13 THEN 4
   ELSE IF block.font_size >= 11 THEN 2
   ELSE 0)
  + (IF block.bold THEN 3 ELSE 0)
  + (IF semantic_patterns(clean(block.text)) THEN 3 ELSE 0)

ClaimLevel(score) ==
  IF score >= 10 THEN "H1" ELSE IF score >= 8 THEN "H2" ELSE "H3"

AlreadyEmitted(block) ==
  \E i \in 1..Len(outline) :
    outline[i].text = strip(block.text) /\ outline[i].page = block.page + 1

\* C8: an iteration of the scan (threshold 3) on a block that passes Stage A
\* appends the block to the outline exactly when its score is at least 3 and
\* its (text, page) is not in the outline yet; the entry has level H1 from
\* score 5, H2 from 4, H3 below, and page + 1.
C8_ScoreAndLevel ==
  [][(pc = "scan" /\ k <= Len(text_blocks)
        /\ is_real_heading(clean(text_blocks[k].text), text_blocks[k]) = "True")
      => LET block == text_blocks[k]
         IN IF ClaimScore(block) >= 6 /\ ~AlreadyEmitted(block)
            THEN outline' = Append(outline,
                              [level |-> ClaimLevel(ClaimScore(block)),
                               text |-> strip(block.text),
                               page |-> block.page + 1])
            ELSE outline' = outline]_vars

\* "1. Introduction" (14, bold, page 0) is H1 on page 1, next to an H2 and an H3
C8_Witness ==
  /\ pc = "return"
  /\ \E i \in 1..Len(outline) :
       outline[i] = [level |-> "H1", text |-> <<"1","."," ","I","n","t","r","o","d","u","c","t","i","o","n">>, page |-> 1]
  /\ \E i \in 1..Len(outline) : outline[i].level = "H2"
  /\ \E i \in 1..Len(outline) : outline[i].level = "H3"

Ordered(s) ==
  \A i \in 1..(Len(s) - 1) :
    \/ s[i].page < s[i+1].page
    \/ s[i].page = s[i+1].page /\ s[i].y0 >= s[i+1].y0

SameKey(a, b) == a.page = b.page /\ a.y0 = b.y0

\* the blocks of each (page, y0) are the same, in the same order, in s and t
SameRuns(s, t) ==
  /\ Len(s) = Len(t)
  /\ \A i \in 1..Len(t) :
       SelectSeq(s, LAMBDA b : SameKey(b, t[i])) = SelectSeq(t, LAMBDA b : SameKey(b, t[i]))

\* C9: the extracted blocks are in ascending page and descending y0, blocks of
\* equal page and y0 keep their extraction order, and sorting them again
\* changes nothing.
C9_SortStableIdempotent ==
  (InDocument /\ files[idx].ok)
    => /\ Ordered(text_blocks)
       /\ SameRuns(text_blocks, text_lines(files[idx]))
       /\ reading_order_sort(text_blocks) = text_blocks

\* lines extracted out of order, two different ones with equal page and y0
C9_Witness ==
  /\ pc = "title"
  /\ text_lines(files[idx]) # text_blocks
  /\ \E i, j \in 1..Len(text_blocks) :
       i < j /\ SameKey(text_blocks[i], text_blocks[j]) /\ text_blocks[i] # text_blocks[j]

SingleCapitalizedWord(s) ==
  LET w == IF s # <<>> /\ s[Len(s)] = ":" THEN SubSeq(s, 1, Len(s) - 1) ELSE s
  IN w # <<>> /\ w[1] \in Upper /\ \A i \in 2..Len(w) : w[i] \in Lower

Thresholds == {0, Points(2), Points(3)}

\* C10: a block whose text is a single capitalized word (optionally with a
\* colon) is rejected by is_real_heading, is emitted by the scan under no
\* threshold, and no outline holds such a text.
C10_SingleWordRejected ==
  /\ \A i \in 1..Len(text_blocks) :
       SingleCapitalizedWord(text_blocks[i].text) =>
         /\ is_real_heading(clean(text_blocks[i].text), text_blocks[i]) = "False"
         /\ \A t \in Thresholds :
              scan_block(text_blocks[i], <<>>, {}, t).outline = <<>>
  /\ \A i \in 1..Len(outline) : ~SingleCapitalizedWord(outline[i].text)
  /\ \A i \in 1..Len(result.outline) : ~SingleCapitalizedWord(result.outline[i].text)

\* the scan went over "Introduction" in bold 16 and returned without it
C10_Witness ==
  /\ pc = "return"
  /\ \E i \in 1..Len(text_blocks) :
       /\ text_blocks[i].text = <<"I","n","t","r","o","d","u","c","t","i","o","n">>
       /\ text_blocks[i].bold
       /\ text_blocks[i].font_size >= 16
  /\ \E i \in 1..Len(outline) : outline[i].level = "H1"

====
